---- MODULE Spec2Model ----
(***************************************************************************)
(* Model of src/src/digest.rs: the Init-Update-Finish digest framework     *)
(* (BlockContext, Context, serialize/deserialize, the five Algorithm       *)
(* descriptors).                                                           *)
(*                                                                         *)
(* Representation of machine integers.  A u64 byte counter is a sequence   *)
(* of 8 base-256 limbs, least significant first, so that saturation at     *)
(* 2^64-1, the 2^61 byte capacity and the big-endian length field are      *)
(* exact.  A chaining word is a sequence of 16-bit limbs, least            *)
(* significant first: 2 limbs for a u32 word, 4 limbs for a u64 word.      *)
(***************************************************************************)
EXTENDS Integers, Sequences, FiniteSets, TLC

\* ------------------------------------------------------------------ bounds
\* Number of Context::update calls explored per context.
MaxUpdates == 3
\* Number of Context::update calls explored around a deserialize of
\* caller-supplied ContextData.
MaxRestoreUpdates == 1

None == "None"

\* ------------------------------------------------------- limb arithmetic
RECURSIVE ToLimbs(_, _)
\* the w least significant base-256 digits of n, least significant first
ToLimbs(n, w) == IF w = 0 THEN <<>> ELSE <<n % 256>> \o ToLimbs(n \div 256, w - 1)

RECURSIVE AddCarry(_, _, _, _)
\* a + b + c over equal-length limb sequences; the result has Len(a) + 1
\* limbs, the last one being the carry out
AddCarry(a, b, i, c) ==
    IF i > Len(a) THEN <<c>>
    ELSE LET s == a[i] + b[i] + c
         IN  <<s % 256>> \o AddCarry(a, b, i + 1, s \div 256)

RECURSIVE MulCarry(_, _, _, _)
\* a * m + c for a small multiplier m; the last limb is the carry out
MulCarry(a, m, i, c) ==
    IF i > Len(a) THEN <<c>>
    ELSE LET s == a[i] * m + c
         IN  <<s % 256>> \o MulCarry(a, m, i + 1, s \div 256)

RECURSIVE LimbsLess(_, _, _)
\* a < b for equal-length limb sequences, compared from limb i downwards
LimbsLess(a, b, i) ==
    IF i = 0 THEN FALSE
    ELSE IF a[i] # b[i] THEN a[i] < b[i]
    ELSE LimbsLess(a, b, i - 1)

Less(a, b) == LimbsLess(a, b, Len(a))
Leq(a, b) == ~Less(b, a)

Reverse(s) == [i \in 1..Len(s) |-> s[Len(s) + 1 - i]]

Zeros(n) == [i \in 1..n |-> 0]

\* width of the byte counter, in bytes
U64_BYTES == 8
U64_MAX == [i \in 1..U64_BYTES |-> 255]
U64_ZERO == Zeros(U64_BYTES)

\* polyfill::u64_from_usize: lossless widening
u64_from_usize(n) == ToLimbs(n, U64_BYTES)

\* u64::saturating_add
saturating_add(a, b) ==
    LET r == AddCarry(a, b, 1, 0)
    IN  IF r[U64_BYTES + 1] # 0 THEN U64_MAX ELSE SubSeq(r, 1, U64_BYTES)

\* u64::checked_add: None on overflow
checked_add(a, b) ==
    LET r == AddCarry(a, b, 1, 0)
    IN  IF r[U64_BYTES + 1] # 0 THEN None ELSE SubSeq(r, 1, U64_BYTES)

\* BitLength::from_byte_len: the byte count times 8 as a u64, or None
\* when the bit count does not fit
BitLength_from_byte_len(bytes) ==
    LET r == MulCarry(bytes, 8, 1, 0)
    IN  IF r[U64_BYTES + 1] # 0 THEN None ELSE SubSeq(r, 1, U64_BYTES)

\* u64::to_be_bytes
to_be_bytes(v) == Reverse(v)

\* -------------------------------------------------- algorithm descriptors
\* the five static Algorithm descriptors, named as the statics are
SHA1_FOR_LEGACY_USE_ONLY == "SHA1_FOR_LEGACY_USE_ONLY"
Algorithms == {SHA1_FOR_LEGACY_USE_ONLY, "SHA256", "SHA384", "SHA512", "SHA512_256"}

BlockLen_512 == 512 \div 8
BlockLen_1024 == 1024 \div 8
OutputLen_160 == 160 \div 8
OutputLen_256 == 256 \div 8
OutputLen_384 == 384 \div 8
OutputLen_512 == 512 \div 8
SHA512_LEN_LEN == 128 \div 8
\* a scratch buffer sized for the 64-byte algorithms only
MAX_BLOCK_LEN_512 == BlockLen_512
MAX_BLOCK_LEN == BlockLen_1024
MAX_OUTPUT_LEN == OutputLen_512
CHAINING_WORDS == 8

block_len(alg) ==
    CASE alg = SHA1_FOR_LEGACY_USE_ONLY -> BlockLen_512
      [] alg = "SHA256" -> BlockLen_512
      [] alg = "SHA384" -> BlockLen_1024
      [] alg = "SHA512" -> BlockLen_1024
      [] alg = "SHA512_256" -> BlockLen_1024

len_len(alg) ==
    CASE alg = SHA1_FOR_LEGACY_USE_ONLY -> 64 \div 8
      [] alg = "SHA256" -> 64 \div 8
      [] alg = "SHA384" -> SHA512_LEN_LEN
      [] alg = "SHA512" -> SHA512_LEN_LEN
      [] alg = "SHA512_256" -> SHA512_LEN_LEN

output_len(alg) ==
    CASE alg = SHA1_FOR_LEGACY_USE_ONLY -> OutputLen_160
      [] alg = "SHA256" -> OutputLen_256
      [] alg = "SHA384" -> OutputLen_384
      [] alg = "SHA512" -> OutputLen_512
      [] alg = "SHA512_256" -> OutputLen_256

chaining_len(alg) ==
    CASE alg = SHA1_FOR_LEGACY_USE_ONLY -> OutputLen_160
      [] alg = "SHA256" -> OutputLen_256
      [] alg = "SHA384" -> OutputLen_512
      [] alg = "SHA512" -> OutputLen_512
      [] alg = "SHA512_256" -> OutputLen_512

\* DynState::new32 / DynState::new64
DynState_new32(words) == [variant |-> "As32", words |-> words]
DynState_new64(words) == [variant |-> "As64", words |-> words]

initial_state(alg) ==
    CASE alg = SHA1_FOR_LEGACY_USE_ONLY -> DynState_new32(<<
        <<8961, 26437>>,      \* 0x67452301
        <<43913, 61389>>,     \* 0xefcdab89
        <<56574, 39098>>,     \* 0x98badcfe
        <<21622, 4146>>,      \* 0x10325476
        <<57840, 50130>>,     \* 0xc3d2e1f0
        <<0, 0>>, <<0, 0>>, <<0, 0>> >>)
      [] alg = "SHA256" -> DynState_new32(<<
        <<58983, 27145>>,     \* 0x6a09e667
        <<44677, 47975>>,     \* 0xbb67ae85
        <<62322, 15470>>,     \* 0x3c6ef372
        <<62778, 42319>>,     \* 0xa54ff53a
        <<21119, 20750>>,     \* 0x510e527f
        <<26764, 39685>>,     \* 0x9b05688c
        <<55723, 8067>>,      \* 0x1f83d9ab
        <<52505, 23520>> >>)  \* 0x5be0cd19
      [] alg = "SHA384" -> DynState_new64(<<
        <<40664, 49413, 40285, 52155>>,     \* 0xcbbb9d5dc1059ed8
        <<54535, 13948, 10538, 25242>>,     \* 0x629a292a367cd507
        <<56599, 12400, 346, 37209>>,       \* 0x9159015a3070dd17
        <<22841, 63246, 60632, 5423>>,      \* 0x152fecd8f70e5939
        <<2865, 65472, 9831, 26419>>,       \* 0x67332667ffc00b31
        <<5393, 26712, 19079, 36532>>,      \* 0x8eb44a8768581511
        <<36775, 25849, 11789, 56076>>,     \* 0xdb0c2e0d64f98fa7
        <<20388, 48890, 18461, 18357>> >>)  \* 0x47b5481dbefa4fa4
      [] alg = "SHA512" -> DynState_new64(<<
        <<51464, 62396, 58983, 27145>>,     \* 0x6a09e667f3bcc908
        <<42811, 33994, 44677, 47975>>,     \* 0xbb67ae8584caa73b
        <<63531, 65172, 62322, 15470>>,     \* 0x3c6ef372fe94f82b
        <<14065, 24349, 62778, 42319>>,     \* 0xa54ff53a5f1d36f1
        <<33489, 44518, 21119, 20750>>,     \* 0x510e527fade682d1
        <<27679, 11070, 26764, 39685>>,     \* 0x9b05688c2b3e6c1f
        <<48491, 64321, 55723, 8067>>,      \* 0x1f83d9abfb41bd6b
        <<8569, 4990, 52505, 23520>> >>)    \* 0x5be0cd19137e2179
      [] alg = "SHA512_256" -> DynState_new64(<<
        <<63276, 64555, 8596, 8753>>,       \* 0x22312194fc2bf72c
        <<25794, 51276, 24483, 40789>>,     \* 0x9f555fa3c84c64c2
        <<45393, 28499, 47211, 9107>>,      \* 0x2393b86b6f53b151
        <<60093, 22848, 30489, 38456>>,     \* 0x963877195940eabd
        <<65507, 43150, 16098, 38440>>,     \* 0x96283ee2a88effe3
        <<14738, 21382, 7717, 48734>>,      \* 0xbe5e1e2553863992
        <<47274, 11397, 39420, 11009>>,     \* 0x2b0199fc2c85b8aa
        <<11426, 33221, 11740, 3767>> >>)   \* 0x0eb72ddc81c52ca2

\* the variant the algorithm's compression and formatting hooks work on
native_variant(alg) == initial_state(alg).variant

\* ------------------------------------------------ compression collaborator
RECURSIVE WeightedSum(_, _, _)
\* position-weighted checksum of the bytes s[lo..hi]
WeightedSum(s, lo, hi) ==
    IF lo > hi THEN 0
    ELSE IF lo = hi THEN (lo + 1) * s[lo] + 1
    ELSE LET mid == (lo + hi) \div 2
         IN  WeightedSum(s, lo, mid) + WeightedSum(s, mid + 1, hi)

RECURSIVE LimbSum(_, _)
LimbSum(words, i) ==
    IF i > Len(words) THEN 0
    ELSE (words[i][1] + 5 * words[i][Len(words[i])] + 7 * LimbSum(words, i + 1)) % 65536

\* Stand-in for the per-block compression transform, which the digest
\* framework only calls through Algorithm::block_data_order: a deterministic
\* function of the whole chaining state and the whole block.
Compress(words, block) ==
    LET b == WeightedSum(block, 1, Len(block)) % 65536
        w == LimbSum(words, 1)
    IN  [i \in 1..Len(words) |->
            [j \in 1..Len(words[i]) |->
                (words[i][j] * 31 + b * (i + 8 * j) + w * 7 + i) % 65536]]

RECURSIVE CompressAll(_, _, _)
CompressAll(words, blocks, i) ==
    IF i > Len(blocks) THEN words
    ELSE CompressAll(Compress(words, blocks[i]), blocks, i + 1)

\* the whole blocks of data, in order
BlocksOf(data, bl) ==
    [i \in 1..(Len(data) \div bl) |-> SubSeq(data, (i - 1) * bl + 1, i * bl)]

\* Algorithm::block_data_order: processes all the full blocks of data,
\* returns the number of bytes processed and the unprocessed data.  The hook
\* of a 32-bit algorithm only accepts DynState::As32 and that of a 64-bit
\* algorithm only DynState::As64; "blocks" records what was compressed.
block_data_order(alg, state, data) ==
    LET bl == block_len(alg)
        blocks == BlocksOf(data, bl)
        n == Len(blocks) * bl
    IN  IF state.variant # native_variant(alg)
        THEN [panic |-> TRUE, state |-> state, consumed |-> 0,
              leftover |-> data, blocks |-> <<>>]
        ELSE [panic |-> FALSE,
              state |-> [state EXCEPT !.words = CompressAll(state.words, blocks, 1)],
              consumed |-> n,
              leftover |-> SubSeq(data, n + 1, Len(data)),
              blocks |-> blocks]

\* ------------------------------------------------------------ BlockContext
BlockContext_new(algorithm) ==
    [state |-> initial_state(algorithm),
     completed_bytes |-> U64_ZERO,
     algorithm |-> algorithm]

\* BlockContext::update returning the whole input as the partial block
BlockContext_update_leftoverAll(block, input) ==
    LET r == block_data_order(block.algorithm, block.state, input)
    IN  [panic |-> r.panic,
         block |-> [block EXCEPT
                      !.state = r.state,
                      !.completed_bytes =
                          saturating_add(block.completed_bytes, u64_from_usize(r.consumed))],
         leftover |-> input,
         blocks |-> r.blocks]

\* BlockContext::update that does not advance the byte counter
BlockContext_update_counterStuck(block, input) ==
    LET r == block_data_order(block.algorithm, block.state, input)
    IN  [panic |-> r.panic,
         block |-> [block EXCEPT !.state = r.state],
         leftover |-> r.leftover,
         blocks |-> r.blocks]

\* BlockContext::update with a wrapping addition
BlockContext_update_wrapping(block, input) ==
    LET r == block_data_order(block.algorithm, block.state, input)
    IN  [panic |-> r.panic,
         block |-> [block EXCEPT
                      !.state = r.state,
                      !.completed_bytes =
                          SubSeq(AddCarry(block.completed_bytes,
                                          u64_from_usize(r.consumed), 1, 0),
                                 1, U64_BYTES)],
         leftover |-> r.leftover,
         blocks |-> r.blocks]

\* BlockContext::update: processes all the full blocks in input, returning
\* the partial block at the end
BlockContext_update(block, input) ==
    LET r == block_data_order(block.algorithm, block.state, input)
    IN  [panic |-> r.panic,
         block |-> [block EXCEPT
                      !.state = r.state,
                      !.completed_bytes =
                          saturating_add(block.completed_bytes, u64_from_usize(r.consumed))],
         leftover |-> r.leftover,
         blocks |-> r.blocks]

\* fill(0) that writes nothing
Fill0_keep(s, from, to) == s

\* fill(0) that leaves the first byte of the range alone
Fill0_skipFirst(s, from, to) ==
    [i \in 1..Len(s) |-> IF i > from + 1 /\ i <= to THEN 0 ELSE s[i]]

\* dst[from..to) := 0, with 0-based half-open bounds as in the source
Fill0(s, from, to) ==
    [i \in 1..Len(s) |-> IF i > from /\ i <= to THEN 0 ELSE s[i]]

\* overwrite_at_start applied to dst[0..end) whatever the start of the slice
OverwriteAt_fromStart(dst, at, end, src) ==
    [i \in 1..Len(dst) |->
        IF i <= end /\ i <= Len(src) THEN src[i] ELSE dst[i]]

\* sliceutil::overwrite_at_start applied to the slice dst[at..end): copies
\* as much of src as fits and leaves the rest of dst alone
OverwriteAt(dst, at, end, src) ==
    [i \in 1..Len(dst) |->
        IF i > at /\ i <= end /\ i - at <= Len(src) THEN src[i - at] ELSE dst[i]]

\* big-endian bytes of one chaining word
WordBeBytes(w) ==
    [k \in 1..(2 * Len(w)) |->
        LET limb == w[Len(w) - ((k - 1) \div 2)]
        IN  IF k % 2 = 1 THEN limb \div 256 ELSE limb % 256]

\* format_output: the words' big-endian bytes written over the leading
\* chunks of a zeroed MAX_OUTPUT_LEN buffer
format_output(words) ==
    LET N == 2 * Len(words[1])
    IN  [k \in 1..MAX_OUTPUT_LEN |->
            LET c == ((k - 1) \div N) + 1
            IN  IF c <= Len(words) THEN WordBeBytes(words[c])[((k - 1) % N) + 1]
                ELSE 0]

\* Algorithm::format_output hook
Algorithm_format_output(alg, state) == format_output(state.words)

\* Digest::as_ref exposing the whole value buffer
Digest_as_ref_whole(d) == d.value

\* Digest::as_ref
Digest_as_ref(d) == SubSeq(d.value, 1, output_len(d.algorithm))

NoDigest == [algorithm |-> None, value |-> <<>>]

\* a call of the block engine on the scratch buffer, or on (the rest of) the
\* caller's data, and the input it is given
BufferCall(input) == [from |-> "buffer", input |-> input]
DataCall(input) == [from |-> "data", input |-> input]

\* BlockContext::finish adding the first padding block to completed_bytes
BlockContext_finish_countsPadding(block, pending0, num_pending) ==
    LET alg == block.algorithm
        bl == block_len(alg)
        Fail(why, blocks, calls) ==
            [panic |-> why, digest |-> NoDigest, blocks |-> blocks, calls |-> calls]
    IN
    IF Len(pending0) # bl THEN Fail("assert_eq", <<>>, <<>>)
    ELSE IF ~(num_pending < Len(pending0)) THEN Fail("assert", <<>>, <<>>)
    ELSE
    LET p1 == [pending0 EXCEPT ![num_pending + 1] = 128]
        pos1 == num_pending + 1
        two == pos1 > Len(p1) - len_len(alg)
        p2 == IF two THEN Fill0(p1, pos1, Len(p1)) ELSE p1
        c1 == IF two THEN <<BufferCall(p2)>> ELSE <<>>
        r1 == IF two THEN block_data_order(alg, block.state, p2)
              ELSE [panic |-> FALSE, state |-> block.state, consumed |-> 0,
                    leftover |-> <<>>, blocks |-> <<>>]
        counter == IF two THEN saturating_add(block.completed_bytes, u64_from_usize(r1.consumed))
                   ELSE block.completed_bytes
        pos2 == IF two THEN 0 ELSE pos1
        p3 == Fill0(p2, pos2, bl - 8)
        completed_bytes == checked_add(counter, u64_from_usize(num_pending))
        completed_bits == IF completed_bytes = None THEN None
                          ELSE BitLength_from_byte_len(completed_bytes)
    IN
    IF r1.panic THEN Fail("hook", <<>>, <<>>)
    ELSE IF completed_bytes = None THEN Fail("checked_add", r1.blocks, c1)
    ELSE IF completed_bits = None THEN Fail("from_byte_len", r1.blocks, c1)
    ELSE
    LET p4 == OverwriteAt(p3, bl - 8, bl, to_be_bytes(completed_bits))
        r2 == block_data_order(alg, r1.state, p4)
    IN  IF r2.panic THEN Fail("hook", r1.blocks, c1)
        ELSE [panic |-> None,
              digest |-> [algorithm |-> alg,
                          value |-> Algorithm_format_output(alg, r2.state)],
              blocks |-> r1.blocks \o r2.blocks,
              calls |-> c1 \o <<BufferCall(p4)>>]

\* BlockContext::finish.  panic names the check that failed, or is None;
\* blocks are the padding blocks handed to the compression hook and calls
\* the buffers block_data_order was called with.  The counter that goes into
\* the length field is self.completed_bytes, which the padding leaves alone.
BlockContext_finish(block, pending0, num_pending) ==
    LET alg == block.algorithm
        bl == block_len(alg)
        Fail(why, blocks, calls) ==
            [panic |-> why, digest |-> NoDigest, blocks |-> blocks, calls |-> calls]
    IN
    IF Len(pending0) # bl THEN Fail("assert_eq", <<>>, <<>>)
    ELSE IF ~(num_pending < Len(pending0)) THEN Fail("assert", <<>>, <<>>)
    ELSE
    LET p1 == [pending0 EXCEPT ![num_pending + 1] = 128]
        pos1 == num_pending + 1
        two == pos1 > Len(p1) - len_len(alg)
        p2 == IF two THEN Fill0(p1, pos1, Len(p1)) ELSE p1
        c1 == IF two THEN <<BufferCall(p2)>> ELSE <<>>
        r1 == IF two THEN block_data_order(alg, block.state, p2)
              ELSE [panic |-> FALSE, state |-> block.state, consumed |-> 0,
                    leftover |-> <<>>, blocks |-> <<>>]
        counter == block.completed_bytes
        pos2 == IF two THEN 0 ELSE pos1
        p3 == Fill0(p2, pos2, bl - 8)
        completed_bytes == checked_add(counter, u64_from_usize(num_pending))
        completed_bits == IF completed_bytes = None THEN None
                          ELSE BitLength_from_byte_len(completed_bytes)
    IN
    IF r1.panic THEN Fail("hook", <<>>, <<>>)
    ELSE IF completed_bytes = None THEN Fail("checked_add", r1.blocks, c1)
    ELSE IF completed_bits = None THEN Fail("from_byte_len", r1.blocks, c1)
    ELSE
    LET p4 == OverwriteAt(p3, bl - 8, bl, to_be_bytes(completed_bits))
        r2 == block_data_order(alg, r1.state, p4)
    IN  IF r2.panic THEN Fail("hook", r1.blocks, c1)
        ELSE [panic |-> None,
              digest |-> [algorithm |-> alg,
                          value |-> Algorithm_format_output(alg, r2.state)],
              blocks |-> r1.blocks \o r2.blocks,
              calls |-> c1 \o <<BufferCall(p4)>>]

\* ----------------------------------------------------------------- Context
Context_new(algorithm) ==
    [block |-> BlockContext_new(algorithm),
     pending |-> Zeros(MAX_BLOCK_LEN),
     num_pending |-> 0]

\* the tail of Context::update forgetting the leftover
UpdateTail_dropLeftover(ctx, to_digest, blocks) ==
    LET r == BlockContext_update(ctx.block, to_digest)
    IN  IF r.panic THEN [panic |-> "hook", ctx |-> ctx, blocks |-> blocks, calls |-> <<>>]
        ELSE [panic |-> None,
              calls |-> <<DataCall(to_digest)>>,
              ctx |-> [block |-> r.block,
                       pending |-> ctx.pending,
                       num_pending |-> 0],
              blocks |-> blocks \o r.blocks]

\* the tail of Context::update: to_digest goes to the block engine and its
\* leftover becomes the pending bytes
UpdateTail(ctx, to_digest, blocks) ==
    LET r == BlockContext_update(ctx.block, to_digest)
    IN  IF r.panic THEN [panic |-> "hook", ctx |-> ctx, blocks |-> blocks, calls |-> <<>>]
        ELSE [panic |-> None,
              calls |-> <<DataCall(to_digest)>>,
              ctx |-> [block |-> r.block,
                       pending |-> OverwriteAt(ctx.pending, 0,
                                               block_len(ctx.block.algorithm), r.leftover),
                       num_pending |-> Len(r.leftover)],
              blocks |-> blocks \o r.blocks]

\* Context::update that tops the buffer up but only processes it when data
\* goes beyond the end of the block
Context_update_strictSplit(ctx, data) ==
    LET bl == block_len(ctx.block.algorithm)
    IN
    IF ctx.num_pending = 0 THEN UpdateTail(ctx, data, <<>>)
    ELSE IF ctx.num_pending > bl
    THEN [panic |-> "unreachable", ctx |-> ctx, blocks |-> <<>>, calls |-> <<>>]
    ELSE
    LET to_fill == bl - ctx.num_pending
        filled == OverwriteAt(ctx.pending, ctx.num_pending, bl, data)
    IN  IF to_fill < Len(data)
        THEN LET r == BlockContext_update(ctx.block, SubSeq(filled, 1, bl))
             IN  IF r.panic
                 THEN [panic |-> "hook", ctx |-> ctx, blocks |-> <<>>, calls |-> <<>>]
                 ELSE LET t == UpdateTail([block |-> r.block, pending |-> filled,
                                           num_pending |-> 0],
                                          SubSeq(data, to_fill + 1, Len(data)),
                                          r.blocks)
                      IN  [t EXCEPT !.calls = <<BufferCall(SubSeq(filled, 1, bl))>> \o @]
        ELSE [panic |-> None,
              ctx |-> [ctx EXCEPT !.pending = filled,
                                  !.num_pending = ctx.num_pending + Len(data)],
              blocks |-> <<>>,
              calls |-> <<>>]

\* Context::update that takes the first block through the scratch buffer
\* even when nothing is pending
Context_update_bufferFirst(ctx, data) ==
    LET bl == block_len(ctx.block.algorithm)
    IN
    IF ctx.num_pending > bl
    THEN [panic |-> "unreachable", ctx |-> ctx, blocks |-> <<>>, calls |-> <<>>]
    ELSE
    LET to_fill == bl - ctx.num_pending
        filled == OverwriteAt(ctx.pending, ctx.num_pending, bl, data)
    IN  IF to_fill <= Len(data)
        THEN LET r == BlockContext_update(ctx.block, SubSeq(filled, 1, bl))
             IN  IF r.panic
                 THEN [panic |-> "hook", ctx |-> ctx, blocks |-> <<>>, calls |-> <<>>]
                 ELSE LET t == UpdateTail([block |-> r.block, pending |-> filled,
                                           num_pending |-> 0],
                                          SubSeq(data, to_fill + 1, Len(data)),
                                          r.blocks)
                      IN  [t EXCEPT !.calls = <<BufferCall(SubSeq(filled, 1, bl))>> \o @]
        ELSE [panic |-> None,
              ctx |-> [ctx EXCEPT !.pending = filled,
                                  !.num_pending = ctx.num_pending + Len(data)],
              blocks |-> <<>>,
              calls |-> <<>>]

\* Context::update that, after the topped-up buffer, takes the next whole
\* block of data through the scratch buffer too
Context_update_twiceBuffered(ctx, data) ==
    LET bl == block_len(ctx.block.algorithm)
    IN
    IF ctx.num_pending = 0 THEN UpdateTail(ctx, data, <<>>)
    ELSE IF ctx.num_pending > bl
    THEN [panic |-> "unreachable", ctx |-> ctx, blocks |-> <<>>, calls |-> <<>>]
    ELSE
    LET to_fill == bl - ctx.num_pending
        filled == OverwriteAt(ctx.pending, ctx.num_pending, bl, data)
        rest == SubSeq(data, to_fill + 1, Len(data))
    IN  IF to_fill <= Len(data)
        THEN LET r == BlockContext_update(ctx.block, SubSeq(filled, 1, bl))
                 again == bl <= Len(rest)
                 refilled == IF again THEN OverwriteAt(filled, 0, bl, rest) ELSE filled
                 r2 == IF again
                       THEN BlockContext_update(r.block, SubSeq(refilled, 1, bl))
                       ELSE [r EXCEPT !.blocks = <<>>]
             IN  IF r.panic
                 THEN [panic |-> "hook", ctx |-> ctx, blocks |-> <<>>, calls |-> <<>>]
                 ELSE LET t == UpdateTail([block |-> r2.block, pending |-> refilled,
                                           num_pending |-> 0],
                                          IF again THEN SubSeq(rest, bl + 1, Len(rest))
                                          ELSE rest,
                                          r.blocks \o r2.blocks)
                      IN  [t EXCEPT !.calls =
                              <<BufferCall(SubSeq(filled, 1, bl))>>
                              \o (IF again THEN <<BufferCall(SubSeq(refilled, 1, bl))>>
                                   ELSE <<>>)
                              \o @]
        ELSE [panic |-> None,
              ctx |-> [ctx EXCEPT !.pending = filled,
                                  !.num_pending = ctx.num_pending + Len(data)],
              blocks |-> <<>>,
              calls |-> <<>>]

\* Context::update whose short-data branch does not return but goes on to
\* the tail with nothing left to digest
Context_update_fallsThrough(ctx, data) ==
    LET bl == block_len(ctx.block.algorithm)
    IN
    IF ctx.num_pending = 0 THEN UpdateTail(ctx, data, <<>>)
    ELSE IF ctx.num_pending > bl
    THEN [panic |-> "unreachable", ctx |-> ctx, blocks |-> <<>>, calls |-> <<>>]
    ELSE
    LET to_fill == bl - ctx.num_pending
        filled == OverwriteAt(ctx.pending, ctx.num_pending, bl, data)
    IN  IF to_fill <= Len(data)
        THEN LET r == BlockContext_update(ctx.block, SubSeq(filled, 1, bl))
             IN  IF r.panic
                 THEN [panic |-> "hook", ctx |-> ctx, blocks |-> <<>>, calls |-> <<>>]
                 ELSE LET t == UpdateTail([block |-> r.block, pending |-> filled,
                                           num_pending |-> 0],
                                          SubSeq(data, to_fill + 1, Len(data)),
                                          r.blocks)
                      IN  [t EXCEPT !.calls = <<BufferCall(SubSeq(filled, 1, bl))>> \o @]
        ELSE UpdateTail([ctx EXCEPT !.pending = filled,
                                    !.num_pending = ctx.num_pending + Len(data)],
                        <<>>, <<>>)

\* Context::update
Context_update(ctx, data) ==
    LET bl == block_len(ctx.block.algorithm)
    IN
    IF ctx.num_pending = 0 THEN UpdateTail(ctx, data, <<>>)
    ELSE IF ctx.num_pending > bl
    THEN [panic |-> "unreachable", ctx |-> ctx, blocks |-> <<>>, calls |-> <<>>]
    ELSE
    LET to_fill == bl - ctx.num_pending
        filled == OverwriteAt(ctx.pending, ctx.num_pending, bl, data)
    IN  IF to_fill <= Len(data)
        THEN LET r == BlockContext_update(ctx.block, SubSeq(filled, 1, bl))
             IN  IF r.panic
                 THEN [panic |-> "hook", ctx |-> ctx, blocks |-> <<>>, calls |-> <<>>]
                 ELSE LET t == UpdateTail([block |-> r.block, pending |-> filled,
                                           num_pending |-> 0],
                                          SubSeq(data, to_fill + 1, Len(data)),
                                          r.blocks)
                      IN  [t EXCEPT !.calls = <<BufferCall(SubSeq(filled, 1, bl))>> \o @]
        ELSE [panic |-> None,
              ctx |-> [ctx EXCEPT !.pending = filled,
                                  !.num_pending = ctx.num_pending + Len(data)],
              blocks |-> <<>>,
              calls |-> <<>>]

\* Context::finish handing over the whole scratch buffer
Context_finish_wholeBuffer(ctx) ==
    BlockContext_finish(ctx.block, ctx.pending, ctx.num_pending)

\* Context::finish
Context_finish(ctx) ==
    BlockContext_finish(ctx.block,
                        SubSeq(ctx.pending, 1, block_len(ctx.block.algorithm)),
                        ctx.num_pending)

\* Context::algorithm
Context_algorithm(ctx) == ctx.block.algorithm

\* digest(): new, one update, finish
digest(algorithm, data) ==
    Context_finish(Context_update(Context_new(algorithm), data).ctx)

\* ------------------------------------------------- serialize / deserialize
\* u64::from(u32)
U64FromU32(w) == w \o <<0, 0>>

\* u32::try_from(u64): None when the value does not fit
U32TryFrom(w) == IF w[3] = 0 /\ w[4] = 0 THEN SubSeq(w, 1, 2) ELSE None

\* Context::serialize
serialize(ctx) ==
    LET st == ctx.block.state
        a == ctx.block.algorithm
    IN  [completed_bytes |-> ctx.block.completed_bytes,
         state |-> IF st.variant = "As64"
                   THEN [name |-> "as64", data |-> st.words]
                   ELSE [name |-> "as32",
                         data |-> [i \in 1..Len(st.words) |-> U64FromU32(st.words[i])]],
         algorithm |-> CASE a = SHA1_FOR_LEGACY_USE_ONLY -> "SHA1"
                         [] a = "SHA256" -> "SHA256"
                         [] a = "SHA384" -> "SHA384"
                         [] a = "SHA512" -> "SHA512"
                         [] a = "SHA512_256" -> "SHA512_256",
         num_pending |-> ctx.num_pending,
         pending |-> ctx.pending]

\* name lookup with two arms exchanged
AlgorithmByName_swapped(name) ==
    CASE name = "SHA1" -> SHA1_FOR_LEGACY_USE_ONLY
      [] name = "SHA256" -> "SHA256"
      [] name = "SHA384" -> "SHA512"
      [] name = "SHA512" -> "SHA384"
      [] name = "SHA512_256" -> "SHA512_256"
      [] OTHER -> "SHA256"

\* the algorithm a serialized name is mapped to
AlgorithmByName(name) ==
    CASE name = "SHA1" -> SHA1_FOR_LEGACY_USE_ONLY
      [] name = "SHA256" -> "SHA256"
      [] name = "SHA384" -> "SHA384"
      [] name = "SHA512" -> "SHA512"
      [] name = "SHA512_256" -> "SHA512_256"
      [] OTHER -> "SHA256"

\* Context::deserialize.  panic names the unwrap that failed, or is None.
deserialize(data) ==
    LET algo == AlgorithmByName(data.algorithm)
        words == data.state.data
        narrowed == [i \in 1..Len(words) |-> U32TryFrom(words[i])]
        Fail(why) == [panic |-> why, ctx |-> Context_new(algo)]
    IN
    IF data.state.name # "as64" /\ \E i \in 1..Len(words) : narrowed[i] = None
    THEN Fail("u32::try_from")
    ELSE IF Len(words) # CHAINING_WORDS THEN Fail("state try_into")
    ELSE IF Len(data.pending) # MAX_BLOCK_LEN THEN Fail("pending try_into")
    ELSE [panic |-> None,
          ctx |-> [block |-> [state |-> IF data.state.name = "as64"
                                        THEN DynState_new64(words)
                                        ELSE DynState_new32(narrowed),
                              completed_bytes |-> data.completed_bytes,
                              algorithm |-> algo],
                   pending |-> data.pending,
                   num_pending |-> data.num_pending]]

\* ------------------------------------------------------------ the program
VARIABLES
    ctx,        \* the Context value
    phase,      \* "live", "finished" (consumed by finish) or "panicked"
    out,        \* the Digest returned by finish
    why,        \* the check that panicked
    start,      \* the Context the run began with
    S,          \* every byte given to update since start, in order
    trace,      \* the blocks update handed to the compression hook, in order
    fin,        \* the blocks finish handed to the compression hook, in order
    last,       \* the last operation: its name, its data length, the Context and
                \* the length of trace before it, and its block-engine calls
    nupdates,   \* number of update calls so far
    nrestores,  \* number of serialize/deserialize round trips so far
    foreign,    \* the Context was built by deserialize from caller-made ContextData
    snap,       \* the caller-made ContextData given to deserialize
    fork        \* the clone taken of the Context, with the bytes it stands for

vars == <<ctx, phase, out, why, start, S, trace, fin, last, nupdates, nrestores,
          foreign, snap, fork>>

\* byte counter of tests::max_input::nearly_full_context: one block short
\* of 2^61 bytes
NearlyFull(alg) == <<256 - block_len(alg), 255, 255, 255, 255, 255, 255, 31>>
\* one block short of the counter's maximum
NearlySaturated(alg) == <<256 - block_len(alg), 255, 255, 255, 255, 255, 255, 255>>

\* the byte counters a run starts from: a new context, or a context that
\* has already absorbed that many whole blocks
StartCounters(alg) == {U64_ZERO, NearlyFull(alg), NearlySaturated(alg)}

\* tests::max_input::nearly_full_context, for any counter
StartContext(alg, completed_bytes) ==
    [block |-> [state |-> initial_state(alg),
                completed_bytes |-> completed_bytes,
                algorithm |-> alg],
     pending |-> Zeros(MAX_BLOCK_LEN),
     num_pending |-> 0]

\* no clone taken yet of the context c
NoFork(c) == [phase |-> "none", ctx |-> c, S |-> <<>>, out |-> NoDigest, why |-> None, n |-> 0]

\* no ContextData yet
NoData ==
    [completed_bytes |-> U64_ZERO, state |-> [name |-> None, data |-> <<>>],
     algorithm |-> None, num_pending |-> 0, pending |-> <<>>]

\* the data lengths update is called with
DataLens(alg) ==
    LET bl == block_len(alg)
    IN  {0, 1, bl - len_len(alg) - 1, bl - 1, 2 * bl + 1}

\* the data lengths update is called with around a deserialize of
\* caller-made ContextData
RestoredLens(alg) == {1, block_len(alg) + 1}

\* the data of an update call: len nonzero bytes that differ from position
\* to position of the stream, pos bytes having been given before
Data(len, pos) == [i \in 1..len |-> 1 + ((7 * (pos + i)) % 255)]

Init ==
    /\ \E alg \in Algorithms : \E c \in StartCounters(alg) :
          /\ ctx = StartContext(alg, c)
          /\ start = StartContext(alg, c)
          /\ last = [op |-> "new", before |-> StartContext(alg, c), len |-> 0, ntrace |-> 0,
                   calls |-> <<>>]
          /\ fork = NoFork(StartContext(alg, c))
    /\ phase = "live"
    /\ out = NoDigest
    /\ why = None
    /\ S = <<>>
    /\ trace = <<>>
    /\ fin = <<>>
    /\ nupdates = 0
    /\ nrestores = 0
    /\ foreign = FALSE
    /\ snap = NoData

\* ctx.update(data) for a data length among lens, at most max times
DoUpdate(max, lens) ==
    /\ phase = "live"
    /\ nupdates < max
    /\ \E len \in lens :
          LET data == Data(len, Len(S))
              r == Context_update(ctx, data)
          IN  /\ last' = [op |-> "update", before |-> ctx, len |-> len, ntrace |-> Len(trace),
                          calls |-> r.calls]
              /\ S' = S \o data
              /\ nupdates' = nupdates + 1
              /\ IF r.panic = None
                 THEN /\ ctx' = r.ctx
                      /\ trace' = trace \o r.blocks
                      /\ UNCHANGED <<phase, why>>
                 ELSE /\ phase' = "panicked"
                      /\ why' = r.panic
                      /\ UNCHANGED <<ctx, trace>>
    /\ UNCHANGED <<out, start, fin, nrestores, foreign, snap, fork>>

\* ctx.update(data)
Update == DoUpdate(MaxUpdates, DataLens(ctx.block.algorithm))

\* ctx.update(data) before and after a deserialize of caller-made data
UpdateRestored == DoUpdate(MaxRestoreUpdates, RestoredLens(ctx.block.algorithm))

\* finish that leaves the context usable
Finish_notConsuming ==
    /\ phase = "live"
    /\ LET r == Context_finish(ctx)
       IN  /\ fin' = r.blocks
           /\ IF r.panic = None
              THEN /\ out' = r.digest
                   /\ UNCHANGED why
              ELSE /\ why' = r.panic
                   /\ UNCHANGED out
    /\ phase' = "live"
    /\ last' = [op |-> "finish", before |-> ctx, len |-> 0, ntrace |-> Len(trace),
                calls |-> Context_finish(ctx).calls]
    /\ UNCHANGED <<ctx, start, S, trace, nupdates, nrestores, foreign, snap, fork>>

\* ctx.finish(): consumes the context
Finish ==
    /\ phase = "live"
    /\ LET r == Context_finish(ctx)
       IN  /\ fin' = r.blocks
           /\ IF r.panic = None
              THEN /\ phase' = "finished"
                   /\ out' = r.digest
                   /\ UNCHANGED why
              ELSE /\ phase' = "panicked"
                   /\ why' = r.panic
                   /\ UNCHANGED out
    /\ last' = [op |-> "finish", before |-> ctx, len |-> 0, ntrace |-> Len(trace),
                calls |-> Context_finish(ctx).calls]
    /\ UNCHANGED <<ctx, start, S, trace, nupdates, nrestores, foreign, snap, fork>>

\* number of serialize/deserialize round trips explored per context
MaxRestores == 1

\* Context::deserialize(ctx.serialize()): the snapshot is restored as
\* captured and the restored context replaces the original
SnapshotRestore ==
    /\ phase = "live"
    /\ nrestores < MaxRestores
    /\ LET d == serialize(ctx)
           r == deserialize(d)
       IN  /\ IF r.panic = None
              THEN /\ ctx' = r.ctx
                   /\ UNCHANGED <<phase, why>>
              ELSE /\ phase' = "panicked"
                   /\ why' = r.panic
                   /\ UNCHANGED ctx
    /\ nrestores' = nrestores + 1
    /\ last' = [op |-> "restore", before |-> ctx, len |-> 0, ntrace |-> Len(trace),
                calls |-> <<>>]
    /\ UNCHANGED <<out, start, S, trace, fin, nupdates, foreign, snap, fork>>

\* a u64 word that does not fit in 32 bits
WideWord == <<1, 0, 1, 0>>

\* ContextData a caller can build from a captured snapshot d by changing
\* one of its public fields
ForeignData(d) ==
    LET bl == block_len(AlgorithmByName(d.algorithm))
    IN  { [d EXCEPT !.algorithm = n] : n \in {"MD5", "SHA256", "SHA512"} \ {d.algorithm} }
        \cup { [d EXCEPT !.state.name = n] : n \in {"as32", "as64", "As64"} \ {d.state.name} }
        \cup { [d EXCEPT !.state.data = w] :
                  w \in { SubSeq(d.state.data, 1, Len(d.state.data) - 1),
                          Append(d.state.data, <<0, 0, 0, 0>>),
                          [d.state.data EXCEPT ![1] = WideWord] } }
        \cup { [d EXCEPT !.pending = b] :
                  b \in { SubSeq(d.pending, 1, bl), Append(d.pending, 0),
                          [i \in 1..Len(d.pending) |->
                              IF i > d.num_pending THEN 255 ELSE d.pending[i]] } }
        \cup { [d EXCEPT !.num_pending = n] : n \in {bl, bl + 1, MAX_BLOCK_LEN + 1} }
        \cup { [d EXCEPT !.completed_bytes = c] :
                  c \in {U64_MAX, <<1, 0, 0, 0, 0, 0, 0, 0>>} }

\* Context::deserialize(data) for caller-made data
Deserialize ==
    /\ phase = "live"
    /\ ~foreign
    /\ \E d \in ForeignData(serialize(ctx)) :
          LET r == deserialize(d)
          IN  /\ snap' = d
              /\ IF r.panic = None
                 THEN /\ ctx' = r.ctx
                      /\ UNCHANGED <<phase, why>>
                 ELSE /\ phase' = "panicked"
                      /\ why' = r.panic
                      /\ UNCHANGED ctx
    /\ foreign' = TRUE
    /\ last' = [op |-> "deserialize", before |-> ctx, len |-> 0, ntrace |-> Len(trace),
                calls |-> <<>>]
    /\ UNCHANGED <<out, start, S, trace, fin, nupdates, nrestores, fork>>

\* number of Context::update calls explored on a context that gets cloned
MaxForkUpdates == 2
\* number of Context::update calls explored on the clone
MaxCloneUpdates == 1

\* the data lengths update is called with around a clone
ForkLens(alg) == {1, block_len(alg) + 1}

\* the data the clone is updated with: other bytes than those the original
\* is given at the same position of the stream
ForkData(len, pos) == [i \in 1..len |-> 1 + ((11 * (pos + i) + 3) % 255)]

\* Context::clone, derived: BlockContext::clone copies the chaining state
\* and the counter and keeps the reference to the immutable static
\* descriptor; the scratch buffer and num_pending are copied by value
Context_clone(c) ==
    [block |-> [state |-> c.block.state,
                completed_bytes |-> c.block.completed_bytes,
                algorithm |-> c.block.algorithm],
     pending |-> c.pending,
     num_pending |-> c.num_pending]

\* ctx.update(data) on a context that gets cloned
UpdateOriginal == DoUpdate(MaxForkUpdates, ForkLens(ctx.block.algorithm))

\* let fork = ctx.clone()
Clone ==
    /\ phase = "live"
    /\ fork.phase = "none"
    /\ fork' = [phase |-> "live", ctx |-> Context_clone(ctx), S |-> S,
                out |-> NoDigest, why |-> None, n |-> 0]
    /\ UNCHANGED <<ctx, phase, out, why, start, S, trace, fin, last, nupdates,
                   nrestores, foreign, snap>>

\* fork.update(data) writing through to the buffer of the context the clone
\* was taken of, as if the two shared it
CloneUpdate_sharedBuffer ==
    /\ fork.phase = "live"
    /\ fork.n < MaxCloneUpdates
    /\ \E len \in ForkLens(fork.ctx.block.algorithm) :
          LET data == ForkData(len, Len(fork.S))
              r == Context_update(fork.ctx, data)
          IN  /\ fork' = IF r.panic = None
                         THEN [fork EXCEPT !.ctx = r.ctx, !.S = @ \o data, !.n = @ + 1]
                         ELSE [fork EXCEPT !.phase = "panicked", !.why = r.panic,
                                           !.S = @ \o data, !.n = @ + 1]
              /\ ctx' = [ctx EXCEPT !.pending = r.ctx.pending,
                                    !.num_pending = r.ctx.num_pending]
    /\ UNCHANGED <<phase, out, why, start, S, trace, fin, last, nupdates,
                   nrestores, foreign, snap>>

\* fork.update(data)
CloneUpdate ==
    /\ fork.phase = "live"
    /\ fork.n < MaxCloneUpdates
    /\ \E len \in ForkLens(fork.ctx.block.algorithm) :
          LET data == ForkData(len, Len(fork.S))
              r == Context_update(fork.ctx, data)
          IN  fork' = IF r.panic = None
                      THEN [fork EXCEPT !.ctx = r.ctx, !.S = @ \o data, !.n = @ + 1]
                      ELSE [fork EXCEPT !.phase = "panicked", !.why = r.panic,
                                        !.S = @ \o data, !.n = @ + 1]
    /\ UNCHANGED <<ctx, phase, out, why, start, S, trace, fin, last, nupdates,
                   nrestores, foreign, snap>>

\* fork.finish(): consumes the clone
CloneFinish ==
    /\ fork.phase = "live"
    /\ LET r == Context_finish(fork.ctx)
       IN  fork' = IF r.panic = None
                   THEN [fork EXCEPT !.phase = "finished", !.out = r.digest]
                   ELSE [fork EXCEPT !.phase = "panicked", !.why = r.panic]
    /\ UNCHANGED <<ctx, phase, out, why, start, S, trace, fin, last, nupdates,
                   nrestores, foreign, snap>>

\* a context is made, updated, captured and restored, and finished
Next == Update \/ Finish \/ SnapshotRestore

Spec == Init /\ [][Next]_vars

\* a context is made, updated, rebuilt from caller-made ContextData, updated
\* and finished
NextForeign == UpdateRestored \/ Deserialize \/ Finish

SpecForeign == Init /\ [][NextForeign]_vars

\* a context is made and updated, a clone of it is taken, and the two are
\* updated and finished independently
NextFork == UpdateOriginal \/ Clone \/ CloneUpdate \/ CloneFinish \/ Finish

SpecFork == Init /\ [][NextFork]_vars

\* ------------------------------------------------------------- properties
\* the run's input given to update in a single call on the starting context
OneCall == Context_update(start, S)
\* ... and finished
OneCallFinish == Context_finish(OneCall.ctx)

Alg == start.block.algorithm

RECURSIVE Concat(_, _)
\* the blocks of a sequence of blocks, end to end
Concat(blocks, i) == IF i > Len(blocks) THEN <<>> ELSE blocks[i] \o Concat(blocks, i + 1)

\* the exact number of bytes given to the context, counting those the
\* starting context had absorbed, as 10 limbs
TotalFed ==
    SubSeq(AddCarry(start.block.completed_bytes \o <<0>>, ToLimbs(Len(S), 9), 1, 0), 1, 10)
        \o <<0>>
TwoPow61 == <<0, 0, 0, 0, 0, 0, 0, 32, 0, 0, 0>>

\* C1 Chunk invariance: whatever the chunking, the blocks update hands to the
\* compression hook are those of a single update over the whole input S, and
\* finish returns the digest (and hands over the padding blocks) of the
\* one-shot computation over S; from Context::new that is digest(algorithm, S).
C1_ChunkInvariance ==
    ~foreign =>
        /\ phase # "panicked" => trace = OneCall.blocks
        /\ last.op = "finish" =>
              /\ fin = OneCallFinish.blocks
              /\ out = OneCallFinish.digest
              /\ why = OneCallFinish.panic
              /\ start = Context_new(Alg) =>
                    /\ out = digest(Alg, S).digest
                    /\ Digest_as_ref(out) = Digest_as_ref(digest(Alg, S).digest)

\* three chunks, one of them empty or a single byte, that cross a block
\* boundary, streamed into a new context and finished
C1_Witness ==
    /\ phase = "finished" /\ ~foreign /\ nrestores = 0
    /\ start = Context_new(Alg)
    /\ nupdates = 3
    /\ Len(S) = block_len(Alg) + 1
    /\ Len(trace) = 1

\* C2 Between calls 0 <= num_pending < block_len, in every context reached
\* from Context::new by update calls.
C2_PendingBelowBlockLen ==
    ~foreign => /\ 0 <= ctx.num_pending
                /\ ctx.num_pending < block_len(ctx.block.algorithm)

\* after a block went through the buffer, block_len - 1 bytes are pending
C2_Witness ==
    /\ ~foreign /\ phase = "live" /\ last.op = "update"
    /\ ctx.num_pending = block_len(Alg) - 1
    /\ Len(trace) > 0

\* C3 Deferred overflow: update never panics whatever the counter holds, and
\* finish panics exactly when the bytes given to the context number 2^61 or
\* more, which is also when completed_bytes + num_pending is 2^61 or more.
C3_DeferredOverflow ==
    ~foreign =>
        /\ phase = "panicked" => last.op = "finish"
        /\ last.op = "finish" =>
              /\ phase = "panicked" <=> Leq(TwoPow61, TotalFed)
              /\ phase = "panicked" <=>
                    Leq(TwoPow61,
                        AddCarry(ctx.block.completed_bytes \o <<0, 0>>,
                                 ToLimbs(ctx.num_pending, 10), 1, 0))

\* a context one block short of 2^61 bytes is given block_len - 1 bytes and
\* then the single byte that reaches 2^61, and finish panics
C3_Witness ==
    /\ ~foreign /\ phase = "panicked" /\ last.op = "finish"
    /\ start.block.completed_bytes = NearlyFull(Alg)
    /\ nupdates = 2 /\ Len(S) = block_len(Alg)
    /\ Len(trace) = 1 /\ ctx.num_pending = 0

\* equality of two contexts in every field
SameContext(a, b) ==
    /\ a.block.algorithm = b.block.algorithm
    /\ a.block.state = b.block.state
    /\ a.block.completed_bytes = b.block.completed_bytes
    /\ a.num_pending = b.num_pending
    /\ a.pending = b.pending

\* C4 Snapshot round-trip: deserialize(serialize(ctx)) is ctx again in every
\* field, for every context reached by updates, and a run that went through
\* such round trips finishes with the digest of the one-shot computation.
C4_SnapshotRoundTrip ==
    ~foreign =>
        /\ phase = "live" =>
              LET r == deserialize(serialize(ctx))
              IN  r.panic = None /\ SameContext(r.ctx, ctx)
        /\ last.op = "restore" => phase = "live" /\ SameContext(ctx, last.before)
        /\ (nrestores > 0 /\ last.op = "finish") =>
              out = OneCallFinish.digest /\ why = OneCallFinish.panic

\* a context with compressed blocks and pending bytes has just been
\* captured and restored
C4_Witness ==
    /\ ~foreign /\ phase = "live" /\ last.op = "restore"
    /\ ctx.num_pending > 0
    /\ Len(trace) > 0
    /\ ctx.block.state # initial_state(Alg)

RecognizedNames == {"SHA1", "SHA256", "SHA384", "SHA512", "SHA512_256"}

\* C5 deserialize of ContextData whose algorithm string is not a recognized
\* name is a decode failure: no context comes back.
C5_UnknownNameRejected ==
    (last.op = "deserialize" /\ snap.algorithm \notin RecognizedNames)
        => phase # "live"

\* the ContextData has one of the malformed shapes
Malformed(d) ==
    \/ Len(d.state.data) # CHAINING_WORDS
    \/ Len(d.pending) # MAX_BLOCK_LEN
    \/ /\ d.state.name # "as64"
       /\ \E i \in 1..Len(d.state.data) : d.state.data[i][3] # 0 \/ d.state.data[i][4] # 0

\* C6 deserialize of a snapshot of malformed shape does not panic.
C6_MalformedDoesNotPanic ==
    (last.op = "deserialize" /\ Malformed(snap)) => phase # "panicked"

\* the bit count 8 * (c + n) as a big-endian integer of w bytes
BitCountBe(c, n, w) ==
    LET bytes == SubSeq(AddCarry(c, ToLimbs(n, U64_BYTES), 1, 0), 1, U64_BYTES)
        bits == SubSeq(MulCarry(bytes, 8, 1, 0), 1, U64_BYTES)
    IN  [i \in 1..w |-> IF i <= w - U64_BYTES THEN 0 ELSE bits[w + 1 - i]]

\* the padding of C7 for pending bytes p, n of them valid, and counter c
Padding(alg, p, n, c) ==
    LET bl == block_len(alg)
        ll == len_len(alg)
        T == IF n + 1 + ll <= bl THEN bl ELSE 2 * bl
        len == BitCountBe(c, n, ll)
    IN  [i \in 1..T |->
            IF i <= n THEN p[i]
            ELSE IF i = n + 1 THEN 128
            ELSE IF i > T - ll THEN len[i - (T - ll)]
            ELSE 0]

\* C7 Padding layout: finish hands the compression hook pending[0..n], 0x80,
\* zero bytes and the bit count 8 * (c + n) big-endian in the last len_len
\* bytes, in all the smallest multiple of block_len >= n + 1 + len_len bytes.
C7_PaddingLayout ==
    (~foreign /\ phase = "finished") =>
        Concat(fin, 1) = Padding(ctx.block.algorithm, ctx.pending, ctx.num_pending,
                                 ctx.block.completed_bytes)

\* finish on a 128-byte-block context that has compressed data, with so many
\* pending bytes that the length field needs a second block
C7_Witness ==
    /\ ~foreign /\ phase = "finished"
    /\ block_len(Alg) = BlockLen_1024
    /\ Len(fin) = 2
    /\ ctx.num_pending = block_len(Alg) - 1
    /\ Len(trace) > 0

StateOf(c) ==
    IF c.num_pending = 0 THEN "Fresh"
    ELSE IF c.num_pending < block_len(c.block.algorithm) THEN "Accumulating"
    ELSE "Invalid"

C8_Step ==
    /\ phase # "live" => UNCHANGED vars
    /\ (~foreign /\ last'.op = "update" /\ vars' # vars) =>
          /\ StateOf(ctx) \in {"Fresh", "Accumulating"}
          /\ phase' = "live"
          /\ StateOf(ctx') \in {"Fresh", "Accumulating"}
    /\ (~foreign /\ last'.op = "finish" /\ vars' # vars) =>
          /\ StateOf(ctx) \in {"Fresh", "Accumulating"}
          /\ phase' # "live"

\* C8 The context is Fresh or Accumulating until finish; update keeps it
\* there; finish consumes it, and nothing is applied to a consumed context.
C8_StateMachine == [][C8_Step]_vars

\* finish has consumed a context that held pending bytes
C8_Witness ==
    /\ ~foreign /\ phase = "finished" /\ last.op = "finish"
    /\ StateOf(last.before) = "Accumulating"
    /\ nupdates = MaxUpdates

\* C9 Block boundary: with block_len - 1 bytes pending, update with one byte
\* compresses exactly one block, the last block_len bytes given, leaves
\* nothing pending and advances the counter by block_len; what follows is
\* as after a single update with all the bytes.
C9_BlockBoundary ==
    (~foreign /\ last.op = "update" /\ last.len = 1
        /\ last.before.num_pending = block_len(Alg) - 1)
    =>  /\ phase = "live"
        /\ ctx.num_pending = 0
        /\ ctx.block.completed_bytes =
              saturating_add(last.before.block.completed_bytes,
                             u64_from_usize(block_len(Alg)))
        /\ Len(trace) = last.ntrace + 1
        /\ trace[Len(trace)] = SubSeq(S, Len(S) - block_len(Alg) + 1, Len(S))
        /\ ctx.block = OneCall.ctx.block
        /\ ctx.num_pending = OneCall.ctx.num_pending
        /\ Context_finish(ctx) = OneCallFinish
        /\ LET more == Data(block_len(Alg) + 1, Len(S))
               a == Context_update(ctx, more)
               b == Context_update(OneCall.ctx, more)
           IN  /\ a.blocks = b.blocks
               /\ Context_finish(a.ctx) = Context_finish(b.ctx)

\* a new context was given block_len - 1 bytes and then one byte
C9_Witness ==
    /\ ~foreign /\ phase = "live" /\ nrestores = 0
    /\ start = Context_new(Alg)
    /\ nupdates = 2 /\ last.op = "update" /\ last.len = 1
    /\ Len(S) = block_len(Alg)
    /\ last.before.num_pending = block_len(Alg) - 1

\* the counter of C10 after consuming k bytes: min(2^64 - 1, old + k)
CappedSum(old, k) ==
    LET sum == AddCarry(old \o <<0>>, ToLimbs(k, U64_BYTES + 1), 1, 0)
    IN  IF Less(U64_MAX \o <<0, 0>>, sum) THEN U64_MAX ELSE SubSeq(sum, 1, U64_BYTES)

\* C10 The byte counter never decreases over an update and is
\* min(2^64 - 1, old + k) after an update that consumed k bytes of whole
\* blocks.
C10_SaturatingCounter ==
    (~foreign /\ last.op = "update" /\ phase = "live") =>
        /\ Leq(last.before.block.completed_bytes, ctx.block.completed_bytes)
        /\ ctx.block.completed_bytes =
              CappedSum(last.before.block.completed_bytes,
                        block_len(Alg) * (Len(trace) - last.ntrace))

\* an update has taken the counter past 2^64 - 1 and it stopped there
C10_Witness ==
    /\ ~foreign /\ phase = "live" /\ last.op = "update"
    /\ last.before.block.completed_bytes # U64_MAX
    /\ ctx.block.completed_bytes = U64_MAX
    /\ Len(trace) - last.ntrace = 2

\* the fields of the context the clone was taken of, and what its
\* operations produced
Original == <<ctx, phase, out, why, S, trace, fin>>

\* the clone's bytes given in a single call to the starting context
ForkOneCall == Context_update(start, fork.S)

C11_Digests ==
    /\ (fork.phase # "none" /\ phase # "panicked") =>
          /\ trace = OneCall.blocks
          /\ ctx.block = OneCall.ctx.block
          /\ ctx.num_pending = OneCall.ctx.num_pending
          /\ SubSeq(ctx.pending, 1, ctx.num_pending)
                = SubSeq(OneCall.ctx.pending, 1, ctx.num_pending)
    /\ (fork.phase # "none" /\ last.op = "finish") =>
          /\ out = OneCallFinish.digest
          /\ why = OneCallFinish.panic
          /\ fin = OneCallFinish.blocks
    /\ fork.phase \in {"live", "finished"} =>
          /\ fork.ctx.block = ForkOneCall.ctx.block
          /\ fork.ctx.num_pending = ForkOneCall.ctx.num_pending
    /\ fork.phase \in {"finished", "panicked"} =>
          /\ fork.out = Context_finish(ForkOneCall.ctx).digest
          /\ fork.why = Context_finish(ForkOneCall.ctx).panic

C11_Frame ==
    /\ (fork.phase = "none" /\ fork'.phase # "none") =>
          /\ SameContext(fork'.ctx, ctx)
          /\ Original' = Original
    /\ (fork.phase # "none" /\ fork' # fork) => Original' = Original
    /\ (fork.phase # "none" /\ Original' # Original) => fork' = fork

\* C11 Checkpoint and fork: a clone equals the context in every field; after
\* it, update and finish on the clone leave every field of the original
\* unchanged and those on the original leave the clone unchanged; the
\* original finishes with the digest of its own bytes, as if no clone had
\* been taken, and the clone with the digest of the bytes up to the clone
\* followed by its own.
C11_ForkIndependence == [](C11_Digests) /\ [][C11_Frame]_vars

\* a context with pending bytes was cloned; the clone was given a byte and
\* the original more than a block, and both were finished
C11_Witness ==
    /\ phase = "finished" /\ fork.phase = "finished"
    /\ nupdates = 2 /\ fork.n = 1
    /\ Len(S) = block_len(Alg) + 2
    /\ Len(fork.S) = 2
    /\ out # fork.out

\* the chaining-state variant of the algorithm's word width
WidthVariant(alg) ==
    IF alg \in {SHA1_FOR_LEGACY_USE_ONLY, "SHA256"} THEN "As32" ELSE "As64"

\* C12 In every context obtained through new, update and deserialize of any
\* ContextData, the chaining-state variant is the one of the algorithm's
\* native word width: As32 for SHA-1 and SHA-256, As64 for SHA-384, SHA-512
\* and SHA-512/256.
C12_VariantMatchesWidth ==
    phase = "live" => ctx.block.state.variant = WidthVariant(ctx.block.algorithm)

\* the number of bytes a Digest of the algorithm exposes
DigestLen(alg) ==
    CASE alg = SHA1_FOR_LEGACY_USE_ONLY -> 20
      [] alg = "SHA256" -> 32
      [] alg = "SHA384" -> 48
      [] alg = "SHA512" -> 64
      [] alg = "SHA512_256" -> 32

\* C13 The algorithm of a context is the one it was made with, whatever
\* update, algorithm(), serialize and clone calls were made; the clone has
\* it too; the Digest finish returns is tagged with it and exposes
\* output_len bytes: 20/32/48/64/32 for SHA-1/SHA-256/SHA-384/SHA-512/
\* SHA-512/256.
C13_AlgorithmFixed ==
    /\ Context_algorithm(ctx) = Alg
    /\ phase = "live" =>
          /\ AlgorithmByName(serialize(ctx).algorithm) = Alg
          /\ Context_algorithm(Context_clone(ctx)) = Alg
    /\ fork.phase # "none" => Context_algorithm(fork.ctx) = Alg
    /\ phase = "finished" =>
          /\ out.algorithm = Alg
          /\ Len(Digest_as_ref(out)) = output_len(Alg)
          /\ Len(Digest_as_ref(out)) = DigestLen(Alg)
    /\ fork.phase = "finished" =>
          /\ fork.out.algorithm = Alg
          /\ Len(Digest_as_ref(fork.out)) = DigestLen(Alg)

\* a SHA-384 context was updated and cloned, and the context and its clone
\* were finished: each Digest exposes 48 of the 64 bytes of its value
C13_Witness ==
    /\ Alg = "SHA384"
    /\ phase = "finished" /\ fork.phase = "finished"
    /\ nupdates > 0 /\ Len(trace) > 0
    /\ Len(out.value) = MAX_OUTPUT_LEN
    /\ Len(Digest_as_ref(out)) = OutputLen_384

\* C14 Descriptor consistency: for each of the five descriptors
\* chaining_len >= output_len, block_len is 64 or 128, len_len is 8 or 16
\* and smaller than block_len, and MAX_BLOCK_LEN >= block_len, so that the
\* scratch buffer of every context holds one block of its algorithm.
C14_DescriptorConsistency ==
    /\ \A alg \in Algorithms :
          /\ chaining_len(alg) >= output_len(alg)
          /\ block_len(alg) \in {64, 128}
          /\ len_len(alg) \in {8, 16}
          /\ len_len(alg) < block_len(alg)
          /\ MAX_BLOCK_LEN >= block_len(alg)
    /\ Len(ctx.pending) = MAX_BLOCK_LEN
    /\ Len(ctx.pending) >= block_len(ctx.block.algorithm)

\* update has compressed a whole 128-byte block out of the scratch buffer
\* of a context whose digest is shorter than its chaining state
C14_Witness ==
    /\ phase = "live" /\ last.op = "update"
    /\ chaining_len(Alg) > output_len(Alg)
    /\ \E i \in 1..Len(last.calls) :
          /\ last.calls[i].from = "buffer"
          /\ Len(last.calls[i].input) = MAX_BLOCK_LEN

\* C15 Every context deserialize returns for ContextData with 8 state words
\* and a pending buffer of MAX_BLOCK_LEN bytes has num_pending < block_len,
\* and no later update or finish on it reaches the unreachable!() of update
\* or fails the assert!(num_pending < pending.len()) of finish.
C15_RestoredPendingBelowBlockLen ==
    (foreign /\ Len(snap.state.data) = CHAINING_WORDS
             /\ Len(snap.pending) = MAX_BLOCK_LEN)
    =>  /\ phase = "live" => ctx.num_pending < block_len(ctx.block.algorithm)
        /\ phase = "panicked" => why \notin {"unreachable", "assert"}

\* the data of the last update call
LastData == SubSeq(S, Len(S) - last.len + 1, Len(S))

\* the block-engine calls of the last operation that took the scratch buffer
Buffered == {i \in 1..Len(last.calls) : last.calls[i].from = "buffer"}
\* ... and those that took the caller's data
Direct == {i \in 1..Len(last.calls) : last.calls[i].from = "data"}

\* C16 For contexts reached from Context::new by updates the defensive
\* checks never fire: the only panics are the overflow checks of finish;
\* buffer.get_mut(num_pending..) is Some; the topped-up buffer update hands
\* to the block engine holds exactly block_len bytes and comes back with an
\* empty leftover; in finish the buffer has block_len bytes, num_pending is
\* below block_len, and every padding-block compression consumes exactly
\* block_len bytes and leaves nothing.
C16_DefensiveChecksQuiet ==
    ~foreign =>
        LET c == last.before
            alg == c.block.algorithm
            bl == block_len(alg)
        IN  /\ phase = "panicked" => why \in {"checked_add", "from_byte_len"}
            /\ last.op = "update" =>
                  /\ c.num_pending <= bl
                  /\ \A i \in Buffered :
                        /\ Len(last.calls[i].input) = bl
                        /\ ~BlockContext_update(c.block, last.calls[i].input).panic
                        /\ BlockContext_update(c.block, last.calls[i].input).leftover = <<>>
            /\ last.op = "finish" =>
                  /\ Len(SubSeq(c.pending, 1, bl)) = bl
                  /\ c.num_pending < bl
                  /\ \A i \in 1..Len(last.calls) :
                        LET r == block_data_order(alg, c.block.state, last.calls[i].input)
                        IN  ~r.panic /\ r.consumed = bl /\ r.leftover = <<>>

\* three updates that took a block through the scratch buffer and left
\* block_len - 1 bytes pending, and a finish that compressed two padding
\* blocks
C16_Witness ==
    /\ ~foreign /\ phase = "finished" /\ last.op = "finish"
    /\ nupdates = 3
    /\ Len(S) = 2 * block_len(Alg) - 1
    /\ Len(trace) = 1
    /\ Len(last.calls) = 2

\* C17 With bytes pending and data shorter than block_len - num_pending,
\* update makes no compression call, leaves the chaining state and
\* completed_bytes unchanged, copies data to pending[num_pending..] and adds
\* its length to num_pending.  With nothing pending, data goes to the block
\* engine directly, and only its leftover, shorter than a block, is copied
\* to the start of the buffer.
C17_DirectOrBuffered ==
    (~foreign /\ last.op = "update" /\ phase = "live") =>
        LET c == last.before
            bl == block_len(c.block.algorithm)
            np == c.num_pending
        IN  /\ (np > 0 /\ last.len < bl - np) =>
                  /\ last.calls = <<>>
                  /\ Len(trace) = last.ntrace
                  /\ ctx.block.state = c.block.state
                  /\ ctx.block.completed_bytes = c.block.completed_bytes
                  /\ ctx.num_pending = np + last.len
                  /\ ctx.pending =
                        [i \in 1..MAX_BLOCK_LEN |->
                            IF i > np /\ i <= np + last.len THEN LastData[i - np]
                            ELSE c.pending[i]]
            /\ np = 0 =>
                  /\ last.calls = <<DataCall(LastData)>>
                  /\ Len(trace) - last.ntrace = last.len \div bl
                  /\ ctx.num_pending = last.len % bl
                  /\ ctx.num_pending < bl
                  /\ ctx.pending =
                        [i \in 1..MAX_BLOCK_LEN |->
                            IF i <= ctx.num_pending
                            THEN LastData[last.len - ctx.num_pending + i]
                            ELSE c.pending[i]]

\* a context that has compressed blocks and holds pending bytes was given
\* data that does not complete the block
C17_Witness ==
    /\ ~foreign /\ phase = "live" /\ last.op = "update"
    /\ last.before.num_pending > 0
    /\ last.len > 0
    /\ last.len < block_len(Alg) - last.before.num_pending
    /\ last.ntrace > 0
    /\ last.before.block.state # initial_state(Alg)

\* C18 finish compresses exactly two blocks when num_pending + 1 >
\* block_len - len_len and exactly one otherwise; the padding blocks do not
\* go into completed_bytes, so the length field holds 8 * (completed_bytes +
\* num_pending), which from Context::new is 8 times the number of data bytes.
C18_PaddingBlocks ==
    (~foreign /\ phase = "finished") =>
        LET alg == ctx.block.algorithm
            bl == block_len(alg)
            np == ctx.num_pending
        IN  /\ Len(fin) = IF np + 1 > bl - len_len(alg) THEN 2 ELSE 1
            /\ Len(last.calls) = Len(fin)
            /\ SubSeq(fin[Len(fin)], bl - U64_BYTES + 1, bl)
                  = BitCountBe(ctx.block.completed_bytes, np, U64_BYTES)
            /\ start = Context_new(Alg) =>
                  SubSeq(fin[Len(fin)], bl - U64_BYTES + 1, bl)
                      = BitCountBe(U64_ZERO, Len(S), U64_BYTES)

\* finish on a context that has compressed blocks and holds the fewest
\* pending bytes that do not leave room for the length field
C18_Witness ==
    /\ ~foreign /\ phase = "finished"
    /\ start = Context_new(Alg)
    /\ ctx.num_pending = block_len(Alg) - len_len(Alg)
    /\ Len(fin) = 2
    /\ Len(trace) = 2

\* C19 Each update compresses at most one block out of the scratch buffer,
\* whatever the length of data and num_pending; all the other whole blocks
\* go to the block engine in a single call on the rest of the caller's
\* data.
C19_OneBufferedBlock ==
    (~foreign /\ last.op = "update" /\ phase = "live") =>
        LET c == last.before
            bl == block_len(c.block.algorithm)
            np == c.num_pending
            new == SubSeq(trace, last.ntrace + 1, Len(trace))
            nb == Cardinality(Buffered)
        IN  /\ nb <= 1
            /\ \A i \in Buffered :
                  /\ i = 1
                  /\ last.calls[i].input
                        = SubSeq(c.pending, 1, np) \o SubSeq(LastData, 1, bl - np)
                  /\ new[1] = last.calls[i].input
            /\ Cardinality(Direct) <= 1
            /\ \A i \in Direct :
                  LET rest == last.calls[i].input
                  IN  /\ rest = SubSeq(LastData, last.len - Len(rest) + 1, last.len)
                      /\ Len(rest) = IF np = 0 THEN last.len ELSE last.len - (bl - np)
                      /\ Len(new) = nb + (Len(rest) \div bl)
                      /\ \A k \in 1..(Len(rest) \div bl) :
                            new[nb + k] = SubSeq(rest, (k - 1) * bl + 1, k * bl)
            /\ Direct = {} => new = <<>>

\* with block_len - 1 bytes pending an update with more than two blocks of
\* data compressed one block out of the buffer and two out of the data
C19_Witness ==
    /\ ~foreign /\ phase = "live" /\ last.op = "update"
    /\ last.before.num_pending = block_len(Alg) - 1
    /\ last.len > 2 * block_len(Alg)
    /\ Len(last.calls) = 2
    /\ Len(trace) - last.ntrace = 3

\* C20 Bookkeeping: after updates from Context::new with the input S of T
\* bytes, num_pending = T mod block_len, completed_bytes = T - num_pending,
\* pending[0..num_pending] holds the last num_pending bytes of S, and the
\* blocks handed to the compression hook are the first T div block_len
\* blocks of S, in order and once each.
C20_Bookkeeping ==
    (~foreign /\ phase # "panicked" /\ start = Context_new(Alg)) =>
        LET bl == block_len(Alg)
            T == Len(S)
            np == ctx.num_pending
        IN  /\ np = T % bl
            /\ ctx.block.completed_bytes = ToLimbs(T - np, U64_BYTES)
            /\ (T - np) % bl = 0
            /\ SubSeq(ctx.pending, 1, np) = SubSeq(S, T - np + 1, T)
            /\ Len(trace) = T \div bl
            /\ \A i \in 1..Len(trace) : trace[i] = SubSeq(S, (i - 1) * bl + 1, i * bl)

\* a new context was given a byte, more than two blocks and then nearly a
\* block: two blocks went through the scratch buffer and a byte is pending
C20_Witness ==
    /\ ~foreign /\ phase = "live" /\ last.op = "update"
    /\ start = Context_new(Alg)
    /\ nupdates = 3
    /\ Len(S) = 3 * block_len(Alg) + 1
    /\ Len(trace) = 3
    /\ ctx.num_pending = 1
    /\ Buffered # {}

\* ContextData of the context c in which every byte of the pending buffer at
\* a position >= num_pending is another byte
StaleData(c) ==
    LET d == serialize(c)
    IN  [d EXCEPT !.pending = [i \in 1..Len(d.pending) |->
                                  IF i > d.num_pending THEN 255 - d.pending[i]
                                  ELSE d.pending[i]]]

\* the context deserialize makes of it
Restale(c) == deserialize(StaleData(c)).ctx

\* the contexts agree on everything but the buffer at positions >= num_pending
SameButStale(a, b) ==
    /\ a.block = b.block
    /\ a.num_pending = b.num_pending
    /\ SubSeq(a.pending, 1, a.num_pending) = SubSeq(b.pending, 1, b.num_pending)

\* C21 The bytes of the pending buffer at positions >= num_pending, left
\* from earlier blocks or supplied through deserialize, are never read: a
\* context that differs from ctx in those bytes only finishes with the same
\* digest, and after the same update it has compressed the same blocks,
\* agrees with the updated ctx on everything but those bytes, and finishes
\* with the same digest.
C21_StaleBytesIgnored ==
    (~foreign /\ phase \in {"live", "finished"}) =>
        LET other == Restale(ctx)
        IN  /\ deserialize(StaleData(ctx)).panic = None
            /\ SameButStale(other, ctx)
            /\ other.pending # ctx.pending
            /\ Context_finish(other) = Context_finish(ctx)
            /\ phase = "finished" => out = Context_finish(other).digest
            /\ phase = "live" =>
                  \A len \in RestoredLens(Alg) :
                      LET a == Context_update(ctx, Data(len, Len(S)))
                          o == Context_update(other, Data(len, Len(S)))
                      IN  /\ a.panic = o.panic
                          /\ a.blocks = o.blocks
                          /\ SameButStale(o.ctx, a.ctx)
                          /\ Context_finish(o.ctx) = Context_finish(a.ctx)

\* finish on a context whose buffer holds, after its pending bytes, bytes of
\* a block compressed earlier, in the block the padding is written to
C21_Witness ==
    /\ ~foreign /\ phase = "finished"
    /\ ctx.num_pending > 0
    /\ Len(fin) = 1
    /\ \E i \in (ctx.num_pending + 2)..(block_len(Alg) - len_len(Alg)) :
          ctx.pending[i] # 0

====
